---- MODULE Spec2Model ----
(***************************************************************************)
(* The play volume of nateroids: the Boundary resource, its box-geometry   *)
(* queries (src/playfield/boundary.rs) and the per-frame wrap step         *)
(* (src/movement.rs).                                                      *)
(*                                                                         *)
(* Lengths are fixed-point integers: one unit is 0.0005, so that the       *)
(* tolerance 0.001 of get_normal_for_position is 2 units and a point can   *)
(* be nearer to a plane than the tolerance without lying on it.  Vec3 is a *)
(* tuple <<x, y, z>>.  Arithmetic is exact: division results are kept as   *)
(* fractions, f32 rounding is not modelled.                                *)
(***************************************************************************)
EXTENDS Integers, Sequences, FiniteSets, Bags, TLC

VARIABLES boundary, entities, ran, call

vars == <<boundary, entities, ran, call>>

(***************************************************************************)
(* Bounds of the model.                                                    *)
(***************************************************************************)
\* query positions are sampled up to Margin units on each side of a plane
Margin == 3
\* ray origins are sampled up to EdgeMargin units on each side of a plane
EdgeMargin == 1
\* ray directions and normals have components in -MaxDir..MaxDir
MaxDir == 1

(***************************************************************************)
(* Program constants, in units of 0.0005.                                  *)
(***************************************************************************)
\* let epsilon = 0.001
epsilon == 2
\* let scalar = 110.
DefaultScalar == 220000
\* #[inspector(min = 50., ...)] pub scalar
MinScalar == 100000

\* the components x, y, z of a Vec3 are the indices 1, 2, 3 of its tuple
Axes == 1..3

\* Vec3 constants
Vec3_ZERO == <<0, 0, 0>>
Vec3_X == <<1, 0, 0>>
Vec3_NEG_X == <<-1, 0, 0>>
Vec3_Y == <<0, 1, 0>>
Vec3_NEG_Y == <<0, -1, 0>>
Vec3_Z == <<0, 0, 1>>
Vec3_NEG_Z == <<0, 0, -1>>

\* Vec3 arithmetic
VAdd(a, b) == <<a[1] + b[1], a[2] + b[2], a[3] + b[3]>>
VSub(a, b) == <<a[1] - b[1], a[2] - b[2], a[3] - b[3]>>
VMul(k, a) == <<k * a[1], k * a[2], k * a[3]>>
\* v / 2.0; every scale of the model is even, so the half is exact
VHalf(a) == <<a[1] \div 2, a[2] \div 2, a[3] \div 2>>
Abs(n) == IF n < 0 THEN -n ELSE n

\* Option<T>
None == [is_some |-> FALSE]
Some(v) == [is_some |-> TRUE, value |-> v]

(***************************************************************************)
(* Boundary                                                                *)
(***************************************************************************)
\* UVec3::new(2, 1, 1)
DefaultCellCount == <<2, 1, 1>>

\* pub fn scale(&self) -> Vec3 { self.scalar * self.cell_count.as_vec3() }
scale(self) == VMul(self.scalar, self.cell_count)

\* impl Default for Boundary: transform: Transform::from_scale(scalar * cell_count)
Boundary_default ==
    [cell_count |-> DefaultCellCount,
     scalar     |-> DefaultScalar,
     transform  |-> [translation |-> Vec3_ZERO,
                     scale       |-> VMul(DefaultScalar, DefaultCellCount)]]

\* let boundary_min = self.transform.translation - self.transform.scale / 2.0;
boundary_min(self) == VSub(self.transform.translation, VHalf(self.transform.scale))
\* let boundary_max = self.transform.translation + self.transform.scale / 2.0;
boundary_max(self) == VAdd(self.transform.translation, VHalf(self.transform.scale))

(***************************************************************************)
(* BoundaryFace                                                            *)
(***************************************************************************)
BoundaryFace == {"Left", "Right", "Top", "Bottom", "Front", "Back"}

\* the six signed axis unit vectors
AxisDirs == {Vec3_X, Vec3_NEG_X, Vec3_Y, Vec3_NEG_Y, Vec3_Z, Vec3_NEG_Z}

\* pub fn get_normal(&self) -> Vec3
get_normal(face) ==
    CASE face = "Left"   -> Vec3_NEG_X
      [] face = "Right"  -> Vec3_X
      [] face = "Top"    -> Vec3_Y
      [] face = "Bottom" -> Vec3_NEG_Y
      [] face = "Front"  -> Vec3_Z
      [] face = "Back"   -> Vec3_NEG_Z

\* from_normal with the Front and Back arms exchanged
from_normal_swapped(normal) ==
    CASE normal = Vec3_X     -> Some("Right")
      [] normal = Vec3_NEG_X -> Some("Left")
      [] normal = Vec3_Y     -> Some("Top")
      [] normal = Vec3_NEG_Y -> Some("Bottom")
      [] normal = Vec3_Z     -> Some("Back")
      [] normal = Vec3_NEG_Z -> Some("Front")
      [] OTHER               -> None

\* pub fn from_normal(normal: Dir3) -> Option<Self>
from_normal(normal) ==
    CASE normal = Vec3_X     -> Some("Right")
      [] normal = Vec3_NEG_X -> Some("Left")
      [] normal = Vec3_Y     -> Some("Top")
      [] normal = Vec3_NEG_Y -> Some("Bottom")
      [] normal = Vec3_Z     -> Some("Front")
      [] normal = Vec3_NEG_Z -> Some("Back")
      [] OTHER               -> None

(***************************************************************************)
(* Boundary::calculate_teleport_position                                   *)
(***************************************************************************)
\* the first comparison of the x block turned around (<= for >=)
calculate_teleport_position_flipped(self, position) ==
    LET bmin == boundary_min(self)
        bmax == boundary_max(self)
        x == IF position[1] <= bmax[1] THEN bmin[1]
             ELSE IF position[1] <= bmin[1] THEN bmax[1]
             ELSE position[1]
        y == IF position[2] >= bmax[2] THEN bmin[2]
             ELSE IF position[2] <= bmin[2] THEN bmax[2]
             ELSE position[2]
        z == IF position[3] >= bmax[3] THEN bmin[3]
             ELSE IF position[3] <= bmin[3] THEN bmax[3]
             ELSE position[3]
    IN  <<x, y, z>>

\* strict comparisons (> for >=, < for <=): a point exactly on a face stays
calculate_teleport_position_strict(self, position) ==
    LET bmin == boundary_min(self)
        bmax == boundary_max(self)
        x == IF position[1] > bmax[1] THEN bmin[1]
             ELSE IF position[1] < bmin[1] THEN bmax[1]
             ELSE position[1]
        y == IF position[2] > bmax[2] THEN bmin[2]
             ELSE IF position[2] < bmin[2] THEN bmax[2]
             ELSE position[2]
        z == IF position[3] > bmax[3] THEN bmin[3]
             ELSE IF position[3] < bmin[3] THEN bmax[3]
             ELSE position[3]
    IN  <<x, y, z>>

\* the three axis blocks chained by else: only the first violated axis wraps
calculate_teleport_position_chained(self, position) ==
    LET bmin == boundary_min(self)
        bmax == boundary_max(self)
        xout == position[1] >= bmax[1] \/ position[1] <= bmin[1]
        yout == position[2] >= bmax[2] \/ position[2] <= bmin[2]
        x == IF position[1] >= bmax[1] THEN bmin[1]
             ELSE IF position[1] <= bmin[1] THEN bmax[1]
             ELSE position[1]
        y == IF xout THEN position[2]
             ELSE IF position[2] >= bmax[2] THEN bmin[2]
             ELSE IF position[2] <= bmin[2] THEN bmax[2]
             ELSE position[2]
        z == IF xout \/ yout THEN position[3]
             ELSE IF position[3] >= bmax[3] THEN bmin[3]
             ELSE IF position[3] <= bmin[3] THEN bmax[3]
             ELSE position[3]
    IN  <<x, y, z>>

\* pub fn calculate_teleport_position(&self, position: Vec3) -> Vec3
Boundary_calculate_teleport_position(self, position) ==
    LET bmin == boundary_min(self)
        bmax == boundary_max(self)
        x == IF position[1] >= bmax[1] THEN bmin[1]
             ELSE IF position[1] <= bmin[1] THEN bmax[1]
             ELSE position[1]
        y == IF position[2] >= bmax[2] THEN bmin[2]
             ELSE IF position[2] <= bmin[2] THEN bmax[2]
             ELSE position[2]
        z == IF position[3] >= bmax[3] THEN bmin[3]
             ELSE IF position[3] <= bmin[3] THEN bmax[3]
             ELSE position[3]
    IN  <<x, y, z>>

(***************************************************************************)
(* Boundary::get_normal_for_position                                       *)
(***************************************************************************)
\* the two z arms exchanged (Dir3::Z at the min plane, Dir3::NEG_Z at max)
get_normal_for_position_zswapped(self, position) ==
    LET half_size == VHalf(self.transform.scale)
        bmin == VSub(self.transform.translation, half_size)
        bmax == VAdd(self.transform.translation, half_size)
    IN  IF Abs(position[1] - bmin[1]) < epsilon THEN Vec3_NEG_X
        ELSE IF Abs(position[1] - bmax[1]) < epsilon THEN Vec3_X
        ELSE IF Abs(position[2] - bmin[2]) < epsilon THEN Vec3_NEG_Y
        ELSE IF Abs(position[2] - bmax[2]) < epsilon THEN Vec3_Y
        ELSE IF Abs(position[3] - bmin[3]) < epsilon THEN Vec3_Z
        ELSE IF Abs(position[3] - bmax[3]) < epsilon THEN Vec3_NEG_Z
        ELSE Vec3_Y

\* the y tests placed before the x tests
get_normal_for_position_yfirst(self, position) ==
    LET half_size == VHalf(self.transform.scale)
        bmin == VSub(self.transform.translation, half_size)
        bmax == VAdd(self.transform.translation, half_size)
    IN  IF Abs(position[2] - bmin[2]) < epsilon THEN Vec3_NEG_Y
        ELSE IF Abs(position[2] - bmax[2]) < epsilon THEN Vec3_Y
        ELSE IF Abs(position[1] - bmin[1]) < epsilon THEN Vec3_NEG_X
        ELSE IF Abs(position[1] - bmax[1]) < epsilon THEN Vec3_X
        ELSE IF Abs(position[3] - bmin[3]) < epsilon THEN Vec3_NEG_Z
        ELSE IF Abs(position[3] - bmax[3]) < epsilon THEN Vec3_Z
        ELSE Vec3_Y

\* pub fn get_normal_for_position(&self, position: Vec3) -> Dir3
get_normal_for_position(self, position) ==
    LET half_size == VHalf(self.transform.scale)
        bmin == VSub(self.transform.translation, half_size)
        bmax == VAdd(self.transform.translation, half_size)
    IN  IF Abs(position[1] - bmin[1]) < epsilon THEN Vec3_NEG_X
        ELSE IF Abs(position[1] - bmax[1]) < epsilon THEN Vec3_X
        ELSE IF Abs(position[2] - bmin[2]) < epsilon THEN Vec3_NEG_Y
        ELSE IF Abs(position[2] - bmax[2]) < epsilon THEN Vec3_Y
        ELSE IF Abs(position[3] - bmin[3]) < epsilon THEN Vec3_NEG_Z
        ELSE IF Abs(position[3] - bmax[3]) < epsilon THEN Vec3_Z
        ELSE Vec3_Y

(***************************************************************************)
(* Boundary::find_edge_point and is_in_bounds                              *)
(*                                                                         *)
(* The ray parameter t = (boundary - start) / dir is the fraction n / d    *)
(* with d > 0; the point origin + direction * t is kept as the numerators  *)
(* of its three coordinates over the same denominator d.                   *)
(***************************************************************************)
\* let mut t_min = f32::MAX; above every quotient of the model
f32_MAX == [n |-> 1, d |-> 0]

\* let t = (boundary - start) / dir;
Quotient(a, b) == IF b < 0 THEN [n |-> -a, d |-> -b] ELSE [n |-> a, d |-> b]

\* t < t_min
TLess(t, t_min) == t.n * t_min.d < t_min.n * t.d

\* let point = origin + direction * t;
PointAt(origin, direction, t) ==
    [num |-> <<origin[1] * t.d + direction[1] * t.n,
               origin[2] * t.d + direction[2] * t.n,
               origin[3] * t.d + direction[3] * t.n>>,
     den |-> t.d]

\* point[axis] >= lo && point[axis] <= hi
CoordWithin(point, axis, lo, hi) ==
    /\ point.num[axis] >= lo[axis] * point.den
    /\ point.num[axis] <= hi[axis] * point.den

\* fn is_in_bounds(point, start, origin, boundary_min, boundary_max) -> bool
is_in_bounds(point, start, origin, bmin, bmax) ==
    IF start = origin[1]
    THEN CoordWithin(point, 2, bmin, bmax) /\ CoordWithin(point, 3, bmin, bmax)
    ELSE IF start = origin[2]
    THEN CoordWithin(point, 1, bmin, bmax) /\ CoordWithin(point, 3, bmin, bmax)
    ELSE CoordWithin(point, 1, bmin, bmax) /\ CoordWithin(point, 2, bmin, bmax)

\* the closure without its t > 0.0 test: crossings behind the origin count
update_t_min_backward(self, origin, direction, start, dir, t_min, bound) ==
    LET t == Quotient(bound - start, dir)
        point == PointAt(origin, direction, t)
    IN  IF /\ TLess(t, t_min)
           /\ is_in_bounds(point, start, origin, boundary_min(self), boundary_max(self))
        THEN t
        ELSE t_min

\* let mut update_t_min = |boundary: f32| { ... }: the new value of t_min
update_t_min(self, origin, direction, start, dir, t_min, bound) ==
    LET t == Quotient(bound - start, dir)
        point == PointAt(origin, direction, t)
    IN  IF /\ t.n > 0
           /\ TLess(t, t_min)
           /\ is_in_bounds(point, start, origin, boundary_min(self), boundary_max(self))
        THEN t
        ELSE t_min

\* one iteration of the loop over (start, dir, pos_bound, neg_bound)
EdgeAxisStep(self, origin, direction, axis, t_min) ==
    LET start == origin[axis]
        dir == direction[axis]
        pos_bound == boundary_max(self)[axis]
        neg_bound == boundary_min(self)[axis]
    IN  IF dir # 0
        THEN update_t_min(self, origin, direction, start, dir,
                          update_t_min(self, origin, direction, start, dir, t_min, pos_bound),
                          neg_bound)
        ELSE t_min

\* pub fn find_edge_point(&self, origin: Vec3, direction: Vec3) -> Option<Vec3>
find_edge_point(self, origin, direction) ==
    LET tx == EdgeAxisStep(self, origin, direction, 1, f32_MAX)
        ty == EdgeAxisStep(self, origin, direction, 2, tx)
        t_min == EdgeAxisStep(self, origin, direction, 3, ty)
    IN  IF t_min # f32_MAX
        THEN Some(PointAt(origin, direction, t_min))
        ELSE None

(***************************************************************************)
(* The boundaries and the arguments the queries are called with.           *)
(***************************************************************************)
\* cell counts: a cube, the default and one with three different extents
CellCounts == {<<1, 1, 1>>, DefaultCellCount, <<1, 2, 3>>}

Scalars == {MinScalar, DefaultScalar}

\* the default centre, and one with three different coordinates
Translations == {Vec3_ZERO, <<2000, -4000, 6000>>}

\* coordinates up to m units on each side of the two planes of an axis, and the centre
Coords(self, axis, m) ==
    {boundary_min(self)[axis] + k : k \in -m..m}
        \cup {boundary_max(self)[axis] + k : k \in -m..m}
        \cup {self.transform.translation[axis]}

Positions(self, m) == Coords(self, 1, m) \X Coords(self, 2, m) \X Coords(self, 3, m)

\* direction vectors, the zero vector among them
Directions == (-MaxDir..MaxDir) \X (-MaxDir..MaxDir) \X (-MaxDir..MaxDir)

Idle == [op |-> "idle"]

(***************************************************************************)
(* The queries, each called on the boundary as it stands.  call records    *)
(* the query, its arguments and what it returned.                          *)
(***************************************************************************)
CallTeleport ==
    /\ call = Idle
    /\ \E position \in Positions(boundary, Margin) :
           call' = [op |-> "calculate_teleport_position", position |-> position,
                    result |-> Boundary_calculate_teleport_position(boundary, position)]
    /\ UNCHANGED <<boundary, entities, ran>>

CallNormalForPosition ==
    /\ call = Idle
    /\ \E position \in Positions(boundary, Margin) :
           call' = [op |-> "get_normal_for_position", position |-> position,
                    result |-> get_normal_for_position(boundary, position)]
    /\ UNCHANGED <<boundary, entities, ran>>

CallFindEdgePoint ==
    /\ call = Idle
    /\ \E origin \in Positions(boundary, EdgeMargin), direction \in Directions :
           call' = [op |-> "find_edge_point", origin |-> origin, direction |-> direction,
                    result |-> find_edge_point(boundary, origin, direction)]
    /\ UNCHANGED <<boundary, entities, ran>>

CallGetNormal ==
    /\ call = Idle
    /\ \E face \in BoundaryFace :
           call' = [op |-> "get_normal", face |-> face, result |-> get_normal(face)]
    /\ UNCHANGED <<boundary, entities, ran>>

\* Dir3: a direction, written as the shortest integer vector that points along it
Dir3s ==
    {n \in Directions \ {Vec3_ZERO} :
        \A k \in 2..MaxDir : \E i \in Axes : n[i] % k # 0}

CallFromNormal ==
    /\ call = Idle
    /\ \E normal \in Dir3s :
           call' = [op |-> "from_normal", normal |-> normal, result |-> from_normal(normal)]
    /\ UNCHANGED <<boundary, entities, ran>>

\* a boundary whose cached scale is up to date; the scalar only sizes the box,
\* so the queries are called on boxes of the default scalar
QueryInit ==
    /\ \E cell_count \in CellCounts, translation \in Translations :
           boundary = [cell_count |-> cell_count,
                       scalar     |-> DefaultScalar,
                       transform  |-> [translation |-> translation,
                                       scale       |-> VMul(DefaultScalar, cell_count)]]
    /\ entities = <<>>
    /\ ran = {}
    /\ call = Idle

QueryNext ==
    \/ CallTeleport
    \/ CallNormalForPosition
    \/ CallFindEdgePoint
    \/ CallGetNormal
    \/ CallFromNormal

SpecQuery == QueryInit /\ [][QueryNext]_vars

(***************************************************************************)
(* movement.rs: the wrap step.                                             *)
(***************************************************************************)
\* clamping instead of wrapping: a coordinate past a bound is put on that bound
movement_calculate_teleport_position_clamped(position, b) ==
    LET bmin == VSub(b.transform.translation, VHalf(b.transform.scale))
        bmax == VAdd(b.transform.translation, VHalf(b.transform.scale))
    IN  [a \in Axes |->
            IF position[a] >= bmax[a] THEN bmax[a]
            ELSE IF position[a] <= bmin[a] THEN bmin[a]
            ELSE position[a]]

\* strict comparisons: a position exactly on a plane stays where it is
movement_calculate_teleport_position_strict(position, b) ==
    LET bmin == VSub(b.transform.translation, VHalf(b.transform.scale))
        bmax == VAdd(b.transform.translation, VHalf(b.transform.scale))
    IN  [a \in Axes |->
            IF position[a] > bmax[a] THEN bmin[a]
            ELSE IF position[a] < bmin[a] THEN bmax[a]
            ELSE position[a]]

\* pub fn calculate_teleport_position(position: Vec3, boundary: &Res<Boundary>) -> Vec3
movement_calculate_teleport_position(position, b) ==
    LET bmin == VSub(b.transform.translation, VHalf(b.transform.scale))
        bmax == VAdd(b.transform.translation, VHalf(b.transform.scale))
        x == IF position[1] >= bmax[1] THEN bmin[1]
             ELSE IF position[1] <= bmin[1] THEN bmax[1]
             ELSE position[1]
        y == IF position[2] >= bmax[2] THEN bmin[2]
             ELSE IF position[2] <= bmin[2] THEN bmax[2]
             ELSE position[2]
        z == IF position[3] >= bmax[3] THEN bmin[3]
             ELSE IF position[3] <= bmin[3] THEN bmax[3]
             ELSE position[3]
    IN  <<x, y, z>>

\* the entities that carry (Transform, Wrappable)
Wrappables == {"spaceship"}

\* MovingObjectBundle::default(): Wrappable::default() and the identity transform
MovingObjectBundle_default == [translation |-> Vec3_ZERO, wrapped |-> FALSE]

(***************************************************************************)
(* One frame.  The systems of the Update schedule run once each, in any    *)
(* order: the plugins put no ordering between the inspector, draw_boundary *)
(* and teleport_at_boundary.  ran is the set of systems that have run in   *)
(* the current frame.  The frames modelled are those of the PlayingGame    *)
(* state, in which the run condition of draw_boundary holds.               *)
(***************************************************************************)
\* the cell counts the inspector switches between
InspectorCellCounts == {<<1, 1, 1>>, DefaultCellCount}

\* ResourceInspectorPlugin::<Boundary>: an edit of scalar and cell_count; it
\* runs only while the inspector is toggled on, so a frame may pass without it
inspector_ui ==
    /\ "inspector_ui" \notin ran
    /\ \E scalar \in Scalars, cell_count \in InspectorCellCounts :
           boundary' = [boundary EXCEPT !.scalar = scalar, !.cell_count = cell_count]
    /\ ran' = ran \cup {"inspector_ui"}
    /\ UNCHANGED <<entities, call>>

\* fn draw_boundary: boundary.transform.scale = boundary.scale();
draw_boundary ==
    /\ "draw_boundary" \notin ran
    /\ boundary' = [boundary EXCEPT !.transform.scale = scale(boundary)]
    /\ ran' = ran \cup {"draw_boundary"}
    /\ UNCHANGED <<entities, call>>

\* the else branch left out: a flag set in an earlier run stays set
teleport_at_boundary_sticky ==
    /\ "teleport_at_boundary" \notin ran
    /\ entities' =
           [e \in DOMAIN entities |->
               LET original_position == entities[e].translation
                   wrapped_position ==
                       movement_calculate_teleport_position(original_position, boundary)
               IN  IF wrapped_position # original_position
                   THEN [translation |-> wrapped_position, wrapped |-> TRUE]
                   ELSE entities[e]]
    /\ ran' = ran \cup {"teleport_at_boundary"}
    /\ UNCHANGED <<boundary, call>>

\* fn teleport_at_boundary
teleport_at_boundary ==
    /\ "teleport_at_boundary" \notin ran
    /\ entities' =
           [e \in DOMAIN entities |->
               LET original_position == entities[e].translation
                   wrapped_position ==
                       movement_calculate_teleport_position(original_position, boundary)
               IN  IF wrapped_position # original_position
                   THEN [translation |-> wrapped_position, wrapped |-> TRUE]
                   ELSE [translation |-> original_position, wrapped |-> FALSE]]
    /\ ran' = ran \cup {"teleport_at_boundary"}
    /\ UNCHANGED <<boundary, call>>

\* the boundary with its cached scale brought up to date
Recomputed(b) == [b EXCEPT !.transform.scale = scale(b)]

\* the physics engine moves the dynamic bodies after the Update systems; z is
\* locked (LockedAxes::TRANSLATION_LOCKED_Z).  The new x and y are sampled
\* around the planes of the box, cached and recomputed.
physics_step ==
    /\ {"draw_boundary", "teleport_at_boundary"} \subseteq ran
    /\ "physics_step" \notin ran
    /\ \E e \in DOMAIN entities :
         \E x \in Coords(boundary, 1, EdgeMargin) \cup Coords(Recomputed(boundary), 1, EdgeMargin),
            y \in Coords(boundary, 2, EdgeMargin) \cup Coords(Recomputed(boundary), 2, EdgeMargin) :
             entities' = [entities EXCEPT ![e].translation = <<x, y, @[3]>>]
    /\ ran' = ran \cup {"physics_step"}
    /\ UNCHANGED <<boundary, call>>

\* the next frame begins once the per-frame systems have run
next_frame ==
    /\ {"draw_boundary", "teleport_at_boundary"} \subseteq ran
    /\ ran' = {}
    /\ UNCHANGED <<boundary, entities, call>>

Init ==
    /\ boundary = Boundary_default
    /\ entities = [e \in Wrappables |-> MovingObjectBundle_default]
    /\ ran = {}
    /\ call = Idle

Next ==
    \/ inspector_ui
    \/ draw_boundary
    \/ teleport_at_boundary
    \/ physics_step
    \/ next_frame

Spec == Init /\ [][Next]_vars

(***************************************************************************)
(* The frames of two moving objects in the default boundary, which nobody  *)
(* edits.                                                                  *)
(***************************************************************************)
MovingObjects == {"spaceship", "nateroid"}

WrapInit ==
    /\ boundary = Boundary_default
    /\ entities = [e \in MovingObjects |-> MovingObjectBundle_default]
    /\ ran = {}
    /\ call = Idle

WrapNext ==
    \/ draw_boundary
    \/ teleport_at_boundary
    \/ physics_step
    \/ next_frame

SpecWrap == WrapInit /\ [][WrapNext]_vars

(***************************************************************************)
(* Boundary::check_portal_overextension.  A portal is the record           *)
(* [position, normal, radius] of the fields the boundary reads.            *)
(***************************************************************************)
\* if <test> { overextended_faces.push(face); }
PushIf(test, face) == IF test THEN <<face>> ELSE <<>>

\* the six tests of lines 367-384, in the order of the pushes
PushedFaces(self, portal) ==
    LET half_size == VHalf(self.transform.scale)
        min == VSub(self.transform.translation, half_size)
        max == VAdd(self.transform.translation, half_size)
        radius == portal.radius
    IN  PushIf(portal.position[1] - radius < min[1], "Left")
          \o PushIf(portal.position[1] + radius > max[1], "Right")
          \o PushIf(portal.position[2] - radius < min[2], "Bottom")
          \o PushIf(portal.position[2] + radius > max[2], "Top")
          \o PushIf(portal.position[3] - radius < min[3], "Back")
          \o PushIf(portal.position[3] + radius > max[3], "Front")

\* let face_to_remove = match portal.normal { ... }; None stands for the arm
\* that returns early
face_to_remove(normal) ==
    CASE normal = Vec3_NEG_X -> Some("Left")
      [] normal = Vec3_X     -> Some("Right")
      [] normal = Vec3_NEG_Y -> Some("Bottom")
      [] normal = Vec3_Y     -> Some("Top")
      [] normal = Vec3_NEG_Z -> Some("Back")
      [] normal = Vec3_Z     -> Some("Front")
      [] OTHER               -> None

\* overextended_faces.retain(|&face| face != face_to_remove)
Retain(faces, removed) == SelectSeq(faces, LAMBDA face : face # removed)

\* the retain left out: the home face stays in the list
check_portal_overextension_unfiltered(self, portal) ==
    PushedFaces(self, portal)

\* fn check_portal_overextension(&self, portal: &Portal) -> Vec<BoundaryFace>
check_portal_overextension(self, portal) ==
    LET overextended_faces == PushedFaces(self, portal)
        removed == face_to_remove(portal.normal)
    IN  IF removed = None
        THEN overextended_faces
        ELSE Retain(overextended_faces, removed.value)

(***************************************************************************)
(* Boundary::draw_portal.  The draw calls issued to the gizmos are kept as *)
(* a bag: the order in which the map of crossing points is walked is not   *)
(* fixed.  A rotated position, an arc angle and an arc rotation are kept   *)
(* as the values they are computed from.                                   *)
(***************************************************************************)
\* the two points at which the circle of the portal crosses the plane of a face
CrossingPoints(portal, face) ==
    <<[circle_of |-> portal.position, crosses |-> face, first |-> TRUE],
      [circle_of |-> portal.position, crosses |-> face, first |-> FALSE]>>

\* calculate_intersection_points(portal, boundary, overextended_faces): the
\* maps it may return.  Its keys are candidate faces, and a face is given
\* either no point or the two crossing points.
calculate_intersection_points(portal, self, overextended_faces) ==
    LET candidates == {overextended_faces[i] : i \in 1..Len(overextended_faces)}
    IN  UNION {{[face \in keys |->
                    IF face \in crossed THEN CrossingPoints(portal, face) ELSE <<>>] :
                crossed \in SUBSET keys} :
               keys \in SUBSET candidates}

\* gizmos.circle(position, normal, radius, color)
circle(position, normal, radius) ==
    [gizmo |-> "circle", position |-> position, normal |-> normal, radius |-> radius]

\* fn rotate_position_to_target_face
rotate_position_to_target_face(self, position, current_normal, target_face) ==
    [rotated |-> position, current_normal |-> current_normal, target_face |-> target_face]

\* gizmos.short_arc_3d_between(center, from, to, color)
short_arc_3d_between(center, from, to) ==
    [gizmo |-> "short_arc_3d_between", center |-> center, from |-> from, to |-> to]

\* fn draw_portal_arc: one gizmos.arc_3d(angle, radius, center, final_rotation, color)
draw_portal_arc(self, portal, from, to) ==
    [gizmo |-> "arc_3d", radius |-> portal.radius, center |-> portal.position,
     from |-> from, to |-> to]

\* the arcs of the faces that were given at least two points
PortalArcs(self, portal, points) ==
    LET faces == {face \in DOMAIN points : Len(points[face]) >= 2}
    IN  SetToBag({short_arc_3d_between(
                      rotate_position_to_target_face(self, portal.position,
                                                     portal.normal, face),
                      points[face][1], points[face][2]) : face \in faces})
          (+) SetToBag({draw_portal_arc(self, portal, points[face][1], points[face][2]) :
                          face \in faces})

\* the return after the circle left out: the arcs are drawn on top of it
draw_portal_circle_kept(self, portal, points) ==
    SetToBag({circle(portal.position, portal.normal, portal.radius)})
        (+) PortalArcs(self, portal, points)

\* pub fn draw_portal(&self, gizmos: &mut Gizmos, portal: &Portal, color: Color),
\* from the map that calculate_intersection_points returned on: the draw calls
draw_portal(self, portal, points) ==
    IF DOMAIN points = {}
    THEN SetToBag({circle(portal.position, portal.normal, portal.radius)})
    ELSE PortalArcs(self, portal, points)

(***************************************************************************)
(* The portals the boundary is asked about.                                *)
(***************************************************************************)
\* the cell counts of the queries, and a box that is thin along x
PortalCellCounts == CellCounts \cup {<<1, 3, 3>>}

\* the six axis directions and one direction that is not axis-aligned
PortalNormals == AxisDirs \cup {<<1, 1, 0>>}

\* radii: zero, the smallest ones, and those around the half extent and the
\* full extent of each axis
Radii(self) ==
    (0..(EdgeMargin + 1))
        \cup {VHalf(self.transform.scale)[a] + k : a \in Axes, k \in -1..1}
        \cup {self.transform.scale[a] + k : a \in Axes, k \in 0..1}

Portals(self, m) ==
    {[position |-> position, normal |-> normal, radius |-> radius] :
        position \in Positions(self, m), normal \in PortalNormals, radius \in Radii(self)}

CallCheckPortalOverextension ==
    /\ call = Idle
    /\ \E portal \in Portals(boundary, EdgeMargin) :
           call' = [op |-> "check_portal_overextension", portal |-> portal,
                    result |-> check_portal_overextension(boundary, portal)]
    /\ UNCHANGED <<boundary, entities, ran>>

\* the portals that are drawn: on the planes and at the centre, of the
\* smallest radii
DrawPortals(self) == {portal \in Portals(self, 0) : portal.radius <= EdgeMargin}

\* a renderer that brings the cached scale up to date before it draws
CallDrawPortal_rescaling ==
    /\ call = Idle
    /\ \E portal \in DrawPortals(boundary) :
         LET self == [boundary EXCEPT !.transform.scale = scale(boundary)]
             overextended_faces == check_portal_overextension(self, portal)
         IN  \E points \in calculate_intersection_points(portal, self,
                                                         overextended_faces) :
                 /\ call' = [op |-> "draw_portal", portal |-> portal,
                             overextended_faces |-> overextended_faces,
                             points |-> points,
                             gizmos |-> draw_portal(self, portal, points)]
                 /\ boundary' = self
    /\ UNCHANGED <<entities, ran>>

CallDrawPortal ==
    /\ call = Idle
    /\ \E portal \in DrawPortals(boundary) :
         LET overextended_faces == check_portal_overextension(boundary, portal)
         IN  \E points \in calculate_intersection_points(portal, boundary,
                                                         overextended_faces) :
                 call' = [op |-> "draw_portal", portal |-> portal,
                          overextended_faces |-> overextended_faces,
                          points |-> points,
                          gizmos |-> draw_portal(boundary, portal, points)]
    /\ UNCHANGED <<boundary, entities, ran>>

PortalInit ==
    /\ \E cell_count \in PortalCellCounts, translation \in Translations :
           boundary = [cell_count |-> cell_count,
                       scalar     |-> DefaultScalar,
                       transform  |-> [translation |-> translation,
                                       scale       |-> VMul(DefaultScalar, cell_count)]]
    /\ entities = <<>>
    /\ ran = {}
    /\ call = Idle

PortalNext ==
    \/ CallCheckPortalOverextension
    \/ CallDrawPortal

SpecPortal == PortalInit /\ [][PortalNext]_vars

(***************************************************************************)
(* The writes to the boundary: draw_boundary and every &self operation of  *)
(* the boundary, called on a resource whose scalar the inspector has       *)
(* lowered since the last draw_boundary.                                   *)
(***************************************************************************)
\* f32::max
f32_max(a, b) == IF a >= b THEN a ELSE b

\* pub fn max_missile_distance(&self) -> f32
max_missile_distance(self) ==
    LET boundary_scale == scale(self)
    IN  f32_max(f32_max(boundary_scale[1], boundary_scale[2]), boundary_scale[3])

CallScale ==
    /\ call = Idle
    /\ call' = [op |-> "scale", result |-> scale(boundary)]
    /\ UNCHANGED <<boundary, entities, ran>>

CallMaxMissileDistance ==
    /\ call = Idle
    /\ call' = [op |-> "max_missile_distance", result |-> max_missile_distance(boundary)]
    /\ UNCHANGED <<boundary, entities, ran>>

\* the default resource with its scalar lowered: the cached scale is stale
EffectsInit ==
    /\ boundary = [Boundary_default EXCEPT !.scalar = MinScalar]
    /\ entities = <<>>
    /\ ran = {}
    /\ call = Idle

EffectsNext ==
    \/ draw_boundary
    \/ CallTeleport
    \/ CallNormalForPosition
    \/ CallFindEdgePoint
    \/ CallCheckPortalOverextension
    \/ CallDrawPortal
    \/ CallScale
    \/ CallMaxMissileDistance

SpecEffects == EffectsInit /\ [][EffectsNext]_vars

(***************************************************************************)
(* Properties of the queries.                                              *)
(***************************************************************************)
Min == boundary_min(boundary)
Max == boundary_max(boundary)

\* min < max on every axis
BoxProper == \A a \in Axes : Min[a] < Max[a]

StrictlyInside(p, a) == Min[a] < p[a] /\ p[a] < Max[a]

\* the unit vector of an axis, with sign s
UnitDir(a, s) == <<IF a = 1 THEN s ELSE 0, IF a = 2 THEN s ELSE 0, IF a = 3 THEN s ELSE 0>>

\* C1: a position strictly inside (min, max) on all three axes is returned
\* unchanged by Boundary::calculate_teleport_position.
C1_InBoundsUnchanged ==
    (/\ call.op = "calculate_teleport_position"
     /\ BoxProper
     /\ \A a \in Axes : StrictlyInside(call.position, a))
        => call.result = call.position

C1_Witness ==
    /\ call.op = "calculate_teleport_position"
    /\ BoxProper
    /\ \A a \in Axes : StrictlyInside(call.position, a)
    /\ call.position # boundary.transform.translation
    /\ call.result = call.position

\* C2: with the other two coordinates strictly interior, a position exactly at
\* max[axis] comes back with that coordinate replaced by min[axis], one exactly
\* at min[axis] with it replaced by max[axis]; the other two are unchanged.
C2_SingleAxisWrap ==
    (call.op = "calculate_teleport_position" /\ BoxProper) =>
        \A a \in Axes :
            (\A b \in Axes \ {a} : StrictlyInside(call.position, b)) =>
                /\ call.position[a] = Max[a]
                       => call.result = [call.position EXCEPT ![a] = Min[a]]
                /\ call.position[a] = Min[a]
                       => call.result = [call.position EXCEPT ![a] = Max[a]]

C2_Witness ==
    /\ call.op = "calculate_teleport_position"
    /\ BoxProper
    /\ call.position[2] = Min[2]
    /\ StrictlyInside(call.position, 1)
    /\ StrictlyInside(call.position, 3)
    /\ call.result = <<call.position[1], Max[2], call.position[3]>>

\* C3: every output coordinate is decided by the input coordinate of the same
\* axis alone (min if input >= max, max if input <= min, else the input), so a
\* position out of range on several axes has all of them replaced in one call.
C3_PerAxisWrap ==
    (call.op = "calculate_teleport_position" /\ BoxProper) =>
        \A a \in Axes :
            /\ call.position[a] >= Max[a] => call.result[a] = Min[a]
            /\ call.position[a] <= Min[a] => call.result[a] = Max[a]
            /\ StrictlyInside(call.position, a) => call.result[a] = call.position[a]

C3_Witness ==
    /\ call.op = "calculate_teleport_position"
    /\ BoxProper
    /\ call.position[1] = Max[1]
    /\ call.position[2] = Max[2]
    /\ StrictlyInside(call.position, 3)
    /\ call.result = <<Min[1], Min[2], call.position[3]>>

\* C5: from_normal and get_normal are inverse bijections between the six faces
\* and the six signed axis unit vectors, and from_normal is None on every
\* other direction.
C5_FaceNormalBijection ==
    /\ (call.op = "from_normal" /\ call.normal \in AxisDirs) =>
           /\ call.result.is_some
           /\ call.result.value \in BoundaryFace
           /\ get_normal(call.result.value) = call.normal
    /\ (call.op = "from_normal" /\ call.normal \notin AxisDirs) =>
           call.result = None
    /\ call.op = "get_normal" =>
           /\ call.result \in AxisDirs
           /\ from_normal(call.result) = Some(call.face)

C5_Witness ==
    /\ call.op = "from_normal"
    /\ call.normal = Vec3_NEG_Z
    /\ call.result = Some("Back")

\* within the tolerance of the min plane / the max plane of an axis
NearMin(p, a) == Abs(p[a] - Min[a]) < epsilon
NearMax(p, a) == Abs(p[a] - Max[a]) < epsilon

\* between the two planes of an axis and farther than the tolerance from both
FarInside(p, a) == Min[a] + epsilon < p[a] /\ p[a] < Max[a] - epsilon

\* C6: a position within the tolerance of exactly one bound plane of one axis,
\* and farther than the tolerance inside on the other two axes, is classified
\* as the negative unit direction of that axis at the min plane and as the
\* positive one at the max plane.
C6_SingleFaceNormal ==
    call.op = "get_normal_for_position" =>
        \A a \in Axes :
            (\A b \in Axes \ {a} : FarInside(call.position, b)) =>
                /\ (NearMin(call.position, a) /\ ~NearMax(call.position, a))
                       => call.result = UnitDir(a, -1)
                /\ (NearMax(call.position, a) /\ ~NearMin(call.position, a))
                       => call.result = UnitDir(a, 1)

C6_Witness ==
    /\ call.op = "get_normal_for_position"
    /\ call.position[3] = Min[3] + 1
    /\ FarInside(call.position, 1)
    /\ FarInside(call.position, 2)
    /\ call.result = Vec3_NEG_Z

\* C7: get_normal_for_position takes the first match in the order x min, x max,
\* y min, y max, z min, z max: near an x plane the answer is -X or +X whatever
\* y and z are, near a y plane but no x plane it is -Y or +Y whatever z is, and
\* near no plane at all it is +Y.
C7_NormalPriority ==
    call.op = "get_normal_for_position" =>
        LET p == call.position
            nearX == NearMin(p, 1) \/ NearMax(p, 1)
            nearY == NearMin(p, 2) \/ NearMax(p, 2)
            nearZ == NearMin(p, 3) \/ NearMax(p, 3)
        IN  /\ NearMin(p, 1) => call.result = Vec3_NEG_X
            /\ (NearMax(p, 1) /\ ~NearMin(p, 1)) => call.result = Vec3_X
            /\ (~nearX /\ NearMin(p, 2)) => call.result = Vec3_NEG_Y
            /\ (~nearX /\ NearMax(p, 2) /\ ~NearMin(p, 2)) => call.result = Vec3_Y
            /\ (~nearX /\ ~nearY /\ ~nearZ) => call.result = Vec3_Y

\* a position on the edge shared by the min planes of y and z, away from x
C7_Witness ==
    /\ call.op = "get_normal_for_position"
    /\ FarInside(call.position, 1)
    /\ call.position[2] = Min[2]
    /\ call.position[3] = Min[3]
    /\ call.result = Vec3_NEG_Y

\* two points kept as fractions are the same point
SamePoint(p, q) == \A i \in Axes : p.num[i] * q.den = q.num[i] * p.den

\* the parameter at which the ray reaches the min or the max plane of an axis
CrossingAt(origin, direction, a, upper) ==
    [axis |-> a,
     t    |-> Quotient((IF upper THEN Max[a] ELSE Min[a]) - origin[a], direction[a])]

\* the crossings of the six bound planes that lie ahead of the origin (t > 0)
ForwardCrossings(origin, direction) ==
    {CrossingAt(origin, direction, p[1], p[2]) :
        p \in {q \in Axes \X BOOLEAN :
                  /\ direction[q[1]] # 0
                  /\ CrossingAt(origin, direction, q[1], q[2]).t.n > 0}}

\* the crossing lies on the face: its other two coordinates are within [min, max]
OnFace(origin, direction, c) ==
    \A b \in Axes \ {c.axis} : CoordWithin(PointAt(origin, direction, c.t), b, Min, Max)

\* C8: from an origin strictly inside the box, along a nonzero direction,
\* find_edge_point returns origin + t * direction for the smallest t > 0 at
\* which the ray reaches any bound plane; that point lies on a face plane and
\* within [min, max] on all three axes.  From the centre along +X it is
\* (max.x, center.y, center.z).
C8_EdgePointFromInside ==
    (/\ call.op = "find_edge_point"
     /\ \A a \in Axes : StrictlyInside(call.origin, a)
     /\ call.direction # Vec3_ZERO) =>
        LET o == call.origin
            d == call.direction
            center == boundary.transform.translation
        IN  /\ call.result.is_some
            /\ \E c \in ForwardCrossings(o, d) :
                   /\ \A u \in ForwardCrossings(o, d) : ~TLess(u.t, c.t)
                   /\ SamePoint(call.result.value, PointAt(o, d, c.t))
            /\ \A a \in Axes : CoordWithin(call.result.value, a, Min, Max)
            /\ \E a \in Axes :
                   \/ call.result.value.num[a] = Min[a] * call.result.value.den
                   \/ call.result.value.num[a] = Max[a] * call.result.value.den
            /\ (o = center /\ d[1] > 0 /\ d[2] = 0 /\ d[3] = 0) =>
                   SamePoint(call.result.value,
                             [num |-> <<Max[1], center[2], center[3]>>, den |-> 1])

\* the ray from a centre whose three coordinates coincide, along +X
C8_Witness ==
    /\ call.op = "find_edge_point"
    /\ call.origin = boundary.transform.translation
    /\ call.origin[1] = call.origin[2]
    /\ call.origin[2] = call.origin[3]
    /\ call.direction = Vec3_X
    /\ call.result = Some([num |-> <<Max[1], call.origin[2], call.origin[3]>>, den |-> 1])

\* C9: whatever the origin and the direction, a point returned by
\* find_edge_point lies on a bound plane of some axis at a parameter t > 0 and
\* has its other two coordinates within [min, max].
C9_EdgePointOnFace ==
    (call.op = "find_edge_point" /\ call.result.is_some) =>
        \E c \in ForwardCrossings(call.origin, call.direction) :
            /\ SamePoint(call.result.value, PointAt(call.origin, call.direction, c.t))
            /\ OnFace(call.origin, call.direction, c)

\* C10: find_edge_point returns None for the zero direction, and None for a
\* ray that starts outside the box and whose forward half-line meets no face;
\* it returns Some only when a crossing with t > 0 passed the in-bounds check.
C10_NoneWhenNoCrossing ==
    call.op = "find_edge_point" =>
        LET o == call.origin
            d == call.direction
        IN  /\ d = Vec3_ZERO => call.result = None
            /\ (/\ \E a \in Axes : o[a] < Min[a] \/ o[a] > Max[a]
                /\ \A c \in ForwardCrossings(o, d) : ~OnFace(o, d, c))
                   => call.result = None
            /\ call.result.is_some =>
                   \E c \in ForwardCrossings(o, d) :
                       is_in_bounds(PointAt(o, d, c.t), o[c.axis], o, Min, Max)

(***************************************************************************)
(* Properties of the frame.                                                *)
(***************************************************************************)
\* C4: whenever the teleport query runs, in whatever order the systems of the
\* frame run, the cached transform.scale it reads equals scalar * cell_count.
C4_QueryReadsRecomputedScale ==
    [][("teleport_at_boundary" \in ran' /\ "teleport_at_boundary" \notin ran)
          => boundary.transform.scale = scale(boundary)]_vars

(***************************************************************************)
(* Properties of the portal queries.                                       *)
(***************************************************************************)
\* the face on the min side (upper = FALSE) or the max side of an axis
FaceOf(a, upper) ==
    CASE a = 1 -> IF upper THEN "Right" ELSE "Left"
      [] a = 2 -> IF upper THEN "Top" ELSE "Bottom"
      [] a = 3 -> IF upper THEN "Front" ELSE "Back"

\* C11: for a portal whose normal is one of the six axis directions, the list
\* returned by check_portal_overextension does not contain the face of that
\* normal, and contains no face twice.
C11_HomeFaceExcluded ==
    (call.op = "check_portal_overextension" /\ call.portal.normal \in AxisDirs) =>
        /\ \A i \in 1..Len(call.result) :
               get_normal(call.result[i]) # call.portal.normal
        /\ \A i, j \in 1..Len(call.result) :
               call.result[i] = call.result[j] => i = j

\* a portal on the Right face whose disc passes the top edge
C11_Witness ==
    /\ call.op = "check_portal_overextension"
    /\ call.portal.normal = Vec3_X
    /\ call.portal.position[1] = Max[1]
    /\ call.portal.radius > 0
    /\ call.result = <<"Top">>

\* the axis of an axis direction
AxisOfNormal(n) == CHOOSE a \in Axes : n[a] # 0

\* the portal lies in the plane of the face its normal names
OnHomeFace(portal) ==
    LET a == AxisOfNormal(portal.normal)
    IN  portal.position[a] = (IF portal.normal[a] > 0 THEN Max[a] ELSE Min[a])

\* the extent of the box along an axis
Extent(a) == Max[a] - Min[a]

\* C12: a portal at the centre of an axis-aligned home face, with a radius
\* smaller than half the shortest dimension of that face, has no overextended
\* face.
C12_CenteredPortalEmpty ==
    (/\ call.op = "check_portal_overextension"
     /\ call.portal.normal \in AxisDirs
     /\ BoxProper
     /\ OnHomeFace(call.portal)
     /\ \A b \in Axes \ {AxisOfNormal(call.portal.normal)} :
            /\ call.portal.position[b] = boundary.transform.translation[b]
            /\ 2 * call.portal.radius < Extent(b)
     /\ call.portal.radius > 0)
        => call.result = <<>>

\* the edges of the home face that the disc passes: position - radius below
\* min, or position + radius above max, on an axis of the face plane
EdgesPassed(portal) ==
    {e \in (Axes \ {AxisOfNormal(portal.normal)}) \X BOOLEAN :
        IF e[2]
        THEN portal.position[e[1]] + portal.radius > Max[e[1]]
        ELSE portal.position[e[1]] - portal.radius < Min[e[1]]}

\* C13: when the disc of a portal lying on an axis-aligned home face passes
\* exactly one of the four edges of that face, check_portal_overextension
\* returns exactly the face adjacent to the home face across that edge.
C13_SingleEdgeSingleFace ==
    (/\ call.op = "check_portal_overextension"
     /\ call.portal.normal \in AxisDirs
     /\ BoxProper
     /\ OnHomeFace(call.portal)
     /\ call.portal.radius > 0
     /\ Cardinality(EdgesPassed(call.portal)) = 1)
        => \E e \in EdgesPassed(call.portal) : call.result = <<FaceOf(e[1], e[2])>>

(***************************************************************************)
(* Properties of the portal renderer.                                      *)
(***************************************************************************)
\* the faces for which at least two crossing points were supplied
SuppliedFaces(points) == {face \in DOMAIN points : Len(points[face]) >= 2}

\* the connecting arcs and the main arcs drawn between the crossing points of a face
ConnectingArcs(gizmos, face) ==
    {d \in BagToSet(gizmos) : d.gizmo = "short_arc_3d_between" /\ d.from.crosses = face}

MainArcs(gizmos, face) ==
    {d \in BagToSet(gizmos) : d.gizmo = "arc_3d" /\ d.from.crosses = face}

DrawsArcs(gizmos) == \E d \in BagToSet(gizmos) : d.gizmo # "circle"

\* C16: when check_portal_overextension returns no face, draw_portal issues
\* one draw call only, the circle at the position, normal and radius of the
\* portal; when it draws arcs, it issues one connecting arc and one main arc
\* for every face that was given at least two crossing points, and no other
\* draw call.
C16_CircleOrArcs ==
    call.op = "draw_portal" =>
        /\ call.overextended_faces = <<>> =>
               /\ BagCardinality(call.gizmos) = 1
               /\ BagIn(circle(call.portal.position, call.portal.normal,
                               call.portal.radius), call.gizmos)
        /\ DrawsArcs(call.gizmos) =>
               /\ \A face \in BoundaryFace :
                      LET n == IF face \in SuppliedFaces(call.points) THEN 1 ELSE 0
                      IN  /\ Cardinality(ConnectingArcs(call.gizmos, face)) = n
                          /\ Cardinality(MainArcs(call.gizmos, face)) = n
               /\ \A d \in BagToSet(call.gizmos) : CopiesIn(d, call.gizmos) = 1
               /\ BagCardinality(call.gizmos)
                      = 2 * Cardinality(SuppliedFaces(call.points))

\* a portal over two faces, one given two crossing points and one given none
C16_Witness ==
    /\ call.op = "draw_portal"
    /\ Len(call.overextended_faces) = 2
    /\ Cardinality(DOMAIN call.points) = 2
    /\ Cardinality(SuppliedFaces(call.points)) = 1
    /\ BagCardinality(call.gizmos) = 2
    /\ DrawsArcs(call.gizmos)

(***************************************************************************)
(* Properties of the writes to the boundary.                               *)
(***************************************************************************)
\* the step is a run of draw_boundary
DrawBoundaryStep == "draw_boundary" \in ran' /\ "draw_boundary" \notin ran

\* the step is a call of a query or of the renderer
CallStep == call' # call

\* C14: a call of calculate_teleport_position, get_normal_for_position,
\* find_edge_point, check_portal_overextension, draw_portal, scale or
\* max_missile_distance leaves every field of the boundary unchanged; the
\* boundary changes only in a run of draw_boundary, which assigns
\* transform.scale and leaves transform.translation, cell_count and scalar
\* unchanged.
C14_OnlyDrawBoundaryWrites ==
    [][/\ CallStep => boundary' = boundary
       /\ boundary' # boundary => DrawBoundaryStep
       /\ DrawBoundaryStep =>
              /\ boundary'.transform.scale = scale(boundary)
              /\ boundary'.transform.translation = boundary.transform.translation
              /\ boundary'.cell_count = boundary.cell_count
              /\ boundary'.scalar = boundary.scalar
              /\ DOMAIN boundary' = DOMAIN boundary
              /\ DOMAIN boundary'.transform = DOMAIN boundary.transform]_vars

\* draw_boundary has replaced the stale scale, and the renderer has drawn a
\* portal on the boundary before or after it
C14_Witness ==
    /\ "draw_boundary" \in ran
    /\ call.op = "draw_portal"
    /\ boundary.transform.scale = scale(boundary)
    /\ boundary.transform.scale # Boundary_default.transform.scale
    /\ boundary.scalar = MinScalar
    /\ boundary.cell_count = DefaultCellCount

(***************************************************************************)
(* Properties of the wrap step.                                            *)
(***************************************************************************)
\* the step is a run of teleport_at_boundary
TeleportStep == "teleport_at_boundary" \in ran' /\ "teleport_at_boundary" \notin ran

\* C15: a run of teleport_at_boundary writes the wrap flag of every entity:
\* the flag is true exactly for the entities whose translation the run
\* changed, and those are at the teleport target of the boundary; every other
\* entity keeps its translation and has the flag false, whatever it was before.
C15_WrapFlagOverwritten ==
    [][TeleportStep =>
          \A e \in DOMAIN entities :
              LET target == Boundary_calculate_teleport_position(
                                boundary, entities[e].translation)
              IN  /\ entities'[e].wrapped
                         <=> entities'[e].translation # entities[e].translation
                  /\ entities'[e].wrapped => entities'[e].translation = target
                  /\ target = entities[e].translation => ~entities'[e].wrapped]_vars

\* after a run: one entity was wrapped in it, the other, wrapped in an earlier
\* run and moved inside since, has lost its flag
C15_Witness ==
    /\ "teleport_at_boundary" \in ran
    /\ "physics_step" \notin ran
    /\ entities["spaceship"].wrapped
    /\ entities["spaceship"].translation[1] = Min[1]
    /\ ~entities["nateroid"].wrapped
    /\ \A a \in Axes : StrictlyInside(entities["nateroid"].translation, a)
    /\ entities["nateroid"].translation # Vec3_ZERO

\* C17: for every position and every boundary, the free function
\* movement::calculate_teleport_position returns what the method
\* Boundary::calculate_teleport_position returns.
C17_FreeFunctionAgrees ==
    call.op = "calculate_teleport_position" =>
        movement_calculate_teleport_position(call.position, boundary) = call.result

\* a position past the max plane of x and on the min plane of z, which both
\* functions wrap on the two axes
C17_Witness ==
    /\ call.op = "calculate_teleport_position"
    /\ call.position[1] > Max[1]
    /\ StrictlyInside(call.position, 2)
    /\ call.position[3] = Min[3]
    /\ boundary.transform.translation # Vec3_ZERO
    /\ call.result = <<Min[1], call.position[2], Max[3]>>
    /\ movement_calculate_teleport_position(call.position, boundary) = call.result

\* a coordinate on or outside a bound plane of its axis
OnOrOutside(p, a) == p[a] >= Max[a] \/ p[a] <= Min[a]

\* C18: with min < max, a position on or outside a face is moved by the wrap:
\* each replaced coordinate is put exactly on the opposite bound, and the
\* function applied to the result puts it back on the bound of the side it
\* left.  So a run of teleport_at_boundary relocates every such entity with
\* wrapped = true, to a position from which the next run relocates it again
\* unless it has moved strictly inside.
C18_WrapAlternates ==
    [][(TeleportStep /\ BoxProper) =>
          \A e \in DOMAIN entities :
              LET p == entities[e].translation
                  q == entities'[e].translation
                  again == Boundary_calculate_teleport_position(boundary', q)
              IN  (\E a \in Axes : OnOrOutside(p, a)) =>
                      /\ entities'[e].wrapped
                      /\ q # p
                      /\ again # q
                      /\ \A a \in Axes :
                             /\ p[a] >= Max[a] => (q[a] = Min[a] /\ again[a] = Max[a])
                             /\ p[a] <= Min[a] => (q[a] = Max[a] /\ again[a] = Min[a])
                             /\ ~OnOrOutside(p, a) => (q[a] = p[a] /\ again[a] = p[a])]_vars

\* an entity that a run has just put on the max plane of x and the min plane
\* of y, from where the next run wraps it again, and the other entity at rest
\* at the centre
C18_Witness ==
    /\ "teleport_at_boundary" \in ran
    /\ "physics_step" \notin ran
    /\ entities["nateroid"].wrapped
    /\ entities["nateroid"].translation[1] = Max[1]
    /\ entities["nateroid"].translation[2] = Min[2]
    /\ entities["spaceship"] = MovingObjectBundle_default

====
